---- MODULE Spec2Model ----
(***************************************************************************)
(* Model of the Mava packaging script (setup.py) and of the MAD4PG system  *)
(* tests (tests/systems/mad4pg_system_test.py).                             *)
(*                                                                         *)
(* Two specifications share the variables:                                 *)
(*   Spec      the run of setup.py on a command line: metadata load,       *)
(*             nightly-flag handling, the call of setup();                 *)
(*   SpecTest  one run of one of the four test methods of TestMAD4PG.      *)
(* Strings that the code builds or takes apart (the version) are sequences *)
(* of one-character strings; strings only compared as wholes (command-line *)
(* arguments, requirement specifiers, group names) are TLA+ strings.       *)
(***************************************************************************)
EXTENDS Integers, Sequences, FiniteSets, TLC

VARIABLES
    spc,               \* position of the setup.py script
    argv,              \* sys.argv
    argv_in,           \* sys.argv as the interpreter was started (history)
    metadata_version,  \* __version__ of mava/_metadata.py
    today,             \* the local date datetime.datetime.now() returns
    version,           \* the script's variable `version`
    setup_args,        \* what setup() was called with, and the argv it sees
    variant,           \* which test method runs (1..4)
    tpc,               \* index of the test statement to execute next
    phase,             \* "idle", inside a call ("in_launch", "in_step"), or
                       \* "have_handle": between create_handle() and dereference()
    system,            \* the keyword arguments MAD4PG(...) was built with
    program,           \* the launchpad program: group name -> number of nodes
    trainer_node,      \* the node unpacked from program.groups["trainer"]
    run_disabled,      \* groups whose node had disable_run() called
    to_device_args,    \* what lp_utils.to_device() was called with
    local_resources,   \* the dict to_device returned
    launch_args,       \* what lp.launch() was called with
    trainer,           \* the dereferenced trainer handle
    steps_done,        \* trainer.step() calls that returned
    loop_i,            \* iterations of `for _ in range(2)` entered
    outcome,           \* "running", "passed", "error"
    trace              \* the calls and returns of the test, in order (history)

setup_vars == <<spc, argv, argv_in, metadata_version, today, version, setup_args>>
test_vars == <<variant, tpc, phase, system, program, trainer_node, run_disabled,
               to_device_args, local_resources, launch_args, trainer, steps_done, loop_i,
               outcome, trace>>
vars == <<setup_vars, test_vars>>

Range(s) == {s[i] : i \in 1..Len(s)}

(***************************************************************************)
(* Bounds of the model.                                                    *)
(***************************************************************************)
MaxArgs == 3
MaxNodes == 2

(***************************************************************************)
(* setup.py: requirement lists (lines 28-76).                              *)
(***************************************************************************)
reverb_requirements == <<"dm-reverb~=0.6.1">>

tf_requirements ==
    <<"tensorflow~=2.7.0", "tensorflow_probability~=0.15.0", "dm-sonnet", "trfl">>

\* the jax list without the trailing `+ tf_requirements`
jax_requirements_no_tf ==
    <<"chex", "jax", "jaxlib", "dm-haiku", "flax", "optax", "rlax">>

jax_requirements ==
    <<"chex", "jax", "jaxlib", "dm-haiku", "flax", "optax", "rlax">>
        \o tf_requirements

pettingzoo_requirements ==
    <<"pettingzoo~=1.17.0", "multi_agent_ale_py", "supersuit==3.3.4", "pygame",
      "pysc2">>

launchpad_requirements == <<"dm-launchpad~=0.3.2">>

smac_requirements ==
    <<"pysc2", "SMAC @ git+https://github.com/oxwhirl/smac.git">>

testing_formatting_requirements ==
    <<"pytest==6.2.4", "pre-commit", "mypy==0.941", "pytest-xdist",
      "flake8==3.8.2", "black==22.3.0", "pytest-cov", "interrogate",
      "pydocstyle", "types-six">>

record_episode_requirements == <<"array2gif">>

flatland_requirements == <<"flatland-rl==3.0.1">>

open_spiel_requirements == <<"open_spiel">>

\* the "envs" entry of extras_require (line 127)
envs_requirements ==
    pettingzoo_requirements \o open_spiel_requirements \o smac_requirements

\* extras_require (lines 117-129)
extras_require ==
    [ tf |-> tf_requirements,
      pz |-> pettingzoo_requirements,
      flatland |-> flatland_requirements,
      open_spiel |-> open_spiel_requirements,
      reverb |-> reverb_requirements,
      launchpad |-> launchpad_requirements,
      testing_formatting |-> testing_formatting_requirements,
      record_episode |-> record_episode_requirements,
      sc2 |-> smac_requirements,
      envs |-> envs_requirements,
      jax |-> jax_requirements ]

(***************************************************************************)
(* setup.py: the inputs of a run.                                          *)
(***************************************************************************)
NightlyFlag == "--nightly"

\* words of a command line after the script name
ArgWords == {NightlyFlag, "sdist", "bdist_wheel"}

RECURSIVE SeqsUpTo(_, _)
SeqsUpTo(S, n) ==
    IF n = 0 THEN {<<>>}
    ELSE LET shorter == SeqsUpTo(S, n - 1)
         IN  shorter \cup {Append(s, x) : s \in shorter, x \in S}

\* sys.argv: the script name, then up to MaxArgs words
Argvs == {<<"setup.py">> \o t : t \in SeqsUpTo(ArgWords, MaxArgs)}

\* values of _metadata.__version__ (mava/_metadata.py is read at run time)
MetadataVersions == { <<"0", ".", "1", ".", "2">>, <<"1", ".", "0">> }

\* dates datetime.datetime.now() can return
Dates == [y : {1999, 2022}, m : {1, 9, 12}, d : {1, 9, 28}]

(***************************************************************************)
(* Python built-ins the script uses.                                       *)
(***************************************************************************)
\* x in s, for a list s
ListContains(s, x) == \E i \in 1..Len(s) : s[i] = x

\* list.remove(x) on a list that holds x: drops every x (a wrong remove)
ListRemoveAll(s, x) == SelectSeq(s, LAMBDA e : e # x)

\* list.remove(x) on a list that holds x: drops the first x
ListRemove(s, x) ==
    LET k == CHOOSE i \in 1..Len(s) :
                 s[i] = x /\ \A j \in 1..(i - 1) : s[j] # x
    IN  SubSeq(s, 1, k - 1) \o SubSeq(s, k + 1, Len(s))

DigitChars == <<"0", "1", "2", "3", "4", "5", "6", "7", "8", "9">>

RECURSIVE Pow10(_)
Pow10(n) == IF n = 0 THEN 1 ELSE 10 * Pow10(n - 1)

\* n in decimal, zero-padded to w digits (the %m, %d and %Y fields)
ZeroPadded(n, w) ==
    [i \in 1..w |-> DigitChars[((n \div Pow10(w - i)) % 10) + 1]]

RECURSIVE Decimal(_)
\* n >= 0 in decimal without padding
Decimal(n) ==
    IF n < 10 THEN <<DigitChars[n + 1]>>
    ELSE Append(Decimal(n \div 10), DigitChars[(n % 10) + 1])

\* strftime without the zero padding of month and day
StrftimeUnpadded(date) == Decimal(date.y) \o Decimal(date.m) \o Decimal(date.d)

\* date.strftime("%Y%m%d") (line 92)
StrftimeYmd(date) ==
    ZeroPadded(date.y, 4) \o ZeroPadded(date.m, 2) \o ZeroPadded(date.d, 2)

DevSuffix == <<".", "d", "e", "v">>

NoSetupCall == [called |-> FALSE, version |-> <<>>, extras |-> <<>>, argv |-> <<>>]

(***************************************************************************)
(* setup.py: the script, one action per top-level statement.               *)
(***************************************************************************)
\* lines 24-26 and 87: load mava/_metadata.py, version = _metadata.__version__
LoadMetadata ==
    /\ spc = "load"
    /\ version' = metadata_version
    /\ spc' = "nightly"
    /\ UNCHANGED <<argv, argv_in, metadata_version, today, setup_args>>
    /\ UNCHANGED test_vars

\* lines 90-92: the nightly flag
NightlyCheck ==
    /\ spc = "nightly"
    /\ IF ListContains(argv, NightlyFlag)
       THEN /\ argv' = ListRemove(argv, NightlyFlag)
            /\ version' = version \o DevSuffix \o StrftimeYmd(today)
       ELSE UNCHANGED <<argv, version>>
    /\ spc' = "setup"
    /\ UNCHANGED <<argv_in, metadata_version, today, setup_args>>
    /\ UNCHANGED test_vars

\* lines 94-142: setup(name=..., version=version, ..., extras_require={...})
CallSetup ==
    /\ spc = "setup"
    /\ setup_args' = [called |-> TRUE, version |-> version,
                      extras |-> extras_require, argv |-> argv]
    /\ spc' = "done"
    /\ UNCHANGED <<argv, argv_in, metadata_version, today, version>>
    /\ UNCHANGED test_vars

(***************************************************************************)
(* mad4pg_system_test.py: the four test methods.  They share one body and  *)
(* differ in the keyword arguments of the factories and of MAD4PG(...).    *)
(***************************************************************************)
Variants == 1..4

VariantName(v) ==
    CASE v = 1 -> "test_mad4pg_on_debugging_env"
      [] v = 2 -> "test_recurrent_mad4pg_on_debugging_env"
      [] v = 3 -> "test_centralised_mad4pg_on_debugging_env"
      [] v = 4 -> "test_state_based_mad4pg_on_debugging_env"

\* the keyword arguments of each test; "default" where the test passes none
TestConfig(v) ==
    [ env_name |-> "simple_spread",
      action_space |-> "continuous",
      return_state_info |-> (v = 4),
      architecture_type |-> IF v = 2 THEN "recurrent" ELSE "default",
      policy_networks_layer_sizes |-> IF v = 1 THEN <<64, 64>> ELSE <<32, 32>>,
      vmin |-> -10,
      vmax |-> 50,
      num_executors |-> 1,
      batch_size |-> IF v = 1 THEN 32 ELSE 16,
      min_replay_size |-> IF v = 1 THEN 32 ELSE 16,
      max_replay_size |-> 1000,
      checkpoint |-> FALSE,
      trainer_fn |-> CASE v = 1 -> "default"
                       [] v = 2 -> "MAD4PGDecentralisedRecurrentTrainer"
                       [] v = 3 -> "MAD4PGCentralisedTrainer"
                       [] v = 4 -> "MAD4PGStateBasedTrainer",
      executor_fn |-> IF v = 2 THEN "MAD4PGRecurrentExecutor" ELSE "default",
      architecture |-> CASE v = 3 -> "CentralisedQValueCritic"
                         [] v = 4 -> "StateBasedQValueCritic"
                         [] OTHER -> "default",
      shared_weights |-> IF v \in {3, 4} THEN "False" ELSE "default",
      sequence_length |-> IF v = 2 THEN 4 ELSE 0,
      period |-> IF v = 2 THEN 4 ELSE 0,
      bootstrap_n |-> IF v = 2 THEN 2 ELSE 0 ]

\* the test body with disable_run() moved after the launch
TestBodyLateDisable ==
    <<"construct", "build", "unpack", "to_device", "launch", "disable_run",
      "handle", "steps">>

\* the statements of a test method, in program order
TestBody ==
    <<"construct", "build", "unpack", "disable_run", "to_device", "launch",
      "handle", "steps">>

Stmt(i) == IF i \in 1..Len(TestBody) THEN TestBody[i] ELSE "end"

\* `for _ in range(2)`
NumSteps == 2

\* nodes_on_gpu=[] in the call of to_device
NodesOnGpu == {}

\* program_nodes=program.groups.keys() in the call of to_device
ProgramNodes(p) == DOMAIN p

LaunchType == "test_mt"

(***************************************************************************)
(* Library code the tests call.  mava.systems.tf.mad4pg and                *)
(* mava.utils.lp_utils are not part of the sources at hand: build() is     *)
(* left open (any set of groups, any node counts) and so is what          *)
(* to_device returns (a resource entry for any of the groups, on a GPU or  *)
(* not); only the arguments of the calls are known.  Any call into the     *)
(* libraries may raise (action Raises) and a call that was entered need    *)
(* not return.                                                             *)
(***************************************************************************)
GroupNames == {"trainer", "executor", "replay"}

\* the programs MAD4PG.build() may return: group name -> number of nodes
BuiltPrograms == UNION {[K -> 1..MaxNodes] : K \in SUBSET GroupNames}

\* the dicts lp_utils.to_device may return: group name -> placement
DeviceMaps == UNION {[K -> {"cpu", "gpu"}] : K \in SUBSET GroupNames}

NoToDeviceCall == [called |-> FALSE, program_nodes |-> {}, nodes_on_gpu |-> {}]

NoLaunch == [called |-> FALSE, program |-> <<>>, launch_type |-> "",
             local_resources |-> <<>>]

Log(events) == trace' = trace \o events

Running == outcome = "running" /\ phase = "idle"

\* system = mad4pg.MAD4PG(...)
Construct ==
    /\ Running /\ Stmt(tpc) = "construct"
    /\ system' = TestConfig(variant)
    /\ tpc' = tpc + 1
    /\ Log(<<"construct">>)
    /\ UNCHANGED <<variant, phase, program, trainer_node, run_disabled,
                   to_device_args, local_resources, launch_args, trainer, steps_done, loop_i,
                   outcome>>
    /\ UNCHANGED setup_vars

\* program = system.build()
Build ==
    /\ Running /\ Stmt(tpc) = "build"
    /\ program' \in BuiltPrograms
    /\ tpc' = tpc + 1
    /\ Log(<<"build">>)
    /\ UNCHANGED <<variant, phase, system, trainer_node, run_disabled,
                   to_device_args, local_resources, launch_args, trainer, steps_done, loop_i,
                   outcome>>
    /\ UNCHANGED setup_vars

TrainerGroupSize == IF "trainer" \in DOMAIN program THEN program["trainer"] ELSE 0

\* (trainer_node,) = program.groups["trainer"], the group holding one node
Unpack ==
    /\ Running /\ Stmt(tpc) = "unpack"
    /\ TrainerGroupSize = 1
    /\ trainer_node' = "trainer"
    /\ tpc' = tpc + 1
    /\ Log(<<"unpack">>)
    /\ UNCHANGED <<variant, phase, system, program, run_disabled,
                   to_device_args, local_resources, launch_args, trainer, steps_done, loop_i,
                   outcome>>
    /\ UNCHANGED setup_vars

\* the same statement on a group of another size: ValueError
UnpackFails ==
    /\ Running /\ Stmt(tpc) = "unpack"
    /\ TrainerGroupSize # 1
    /\ outcome' = "error"
    /\ Log(<<"raise">>)
    /\ UNCHANGED <<variant, tpc, phase, system, program, trainer_node,
                   run_disabled, to_device_args, local_resources, launch_args, trainer,
                   steps_done, loop_i>>
    /\ UNCHANGED setup_vars

\* trainer_node.disable_run()
DisableRun ==
    /\ Running /\ Stmt(tpc) = "disable_run"
    /\ run_disabled' = run_disabled \cup {trainer_node}
    /\ tpc' = tpc + 1
    /\ Log(<<"disable_run">>)
    /\ UNCHANGED <<variant, phase, system, program, trainer_node,
                   to_device_args, local_resources, launch_args, trainer, steps_done, loop_i,
                   outcome>>
    /\ UNCHANGED setup_vars

\* local_resources = lp_utils.to_device(program_nodes=..., nodes_on_gpu=[])
ToDevice ==
    /\ Running /\ Stmt(tpc) = "to_device"
    /\ to_device_args' = [called |-> TRUE,
                          program_nodes |-> ProgramNodes(program),
                          nodes_on_gpu |-> NodesOnGpu]
    /\ local_resources' \in DeviceMaps
    /\ tpc' = tpc + 1
    /\ Log(<<"to_device">>)
    /\ UNCHANGED <<variant, phase, system, program, trainer_node, run_disabled,
                   launch_args, trainer, steps_done, loop_i, outcome>>
    /\ UNCHANGED setup_vars

\* lp.launch(program, launch_type="test_mt", local_resources=...): the call
LaunchCall ==
    /\ Running /\ Stmt(tpc) = "launch"
    /\ launch_args' = [called |-> TRUE, program |-> program,
                       launch_type |-> LaunchType,
                       local_resources |-> local_resources]
    /\ phase' = "in_launch"
    /\ Log(<<"launch_call">>)
    /\ UNCHANGED <<variant, tpc, system, program, trainer_node, run_disabled,
                   to_device_args, local_resources, trainer, steps_done, loop_i, outcome>>
    /\ UNCHANGED setup_vars

\* lp.launch(...) returns
LaunchReturn ==
    /\ outcome = "running" /\ phase = "in_launch"
    /\ phase' = "idle"
    /\ tpc' = tpc + 1
    /\ Log(<<"launch_return">>)
    /\ UNCHANGED <<variant, system, program, trainer_node, run_disabled,
                   to_device_args, local_resources, launch_args, trainer, steps_done, loop_i,
                   outcome>>
    /\ UNCHANGED setup_vars

\* trainer_node.create_handle() of line 79 returns the handle
CreateHandle ==
    /\ Running /\ Stmt(tpc) = "handle"
    /\ phase' = "have_handle"
    /\ Log(<<"create_handle">>)
    /\ UNCHANGED <<variant, tpc, system, program, trainer_node, run_disabled,
                   to_device_args, local_resources, launch_args, trainer, steps_done, loop_i,
                   outcome>>
    /\ UNCHANGED setup_vars

\* trainer = <handle>.dereference() of line 79
Dereference ==
    /\ outcome = "running" /\ phase = "have_handle"
    /\ trainer' = trainer_node
    /\ phase' = "idle"
    /\ tpc' = tpc + 1
    /\ Log(<<"dereference">>)
    /\ UNCHANGED <<variant, system, program, trainer_node, run_disabled,
                   to_device_args, local_resources, launch_args, steps_done, loop_i, outcome>>
    /\ UNCHANGED setup_vars

\* the loop enters an iteration: trainer.step() is called
StepCall ==
    /\ Running /\ Stmt(tpc) = "steps"
    /\ loop_i < NumSteps
    /\ loop_i' = loop_i + 1
    /\ phase' = "in_step"
    /\ Log(<<"step_call">>)
    /\ UNCHANGED <<variant, tpc, system, program, trainer_node, run_disabled,
                   to_device_args, local_resources, launch_args, trainer, steps_done, outcome>>
    /\ UNCHANGED setup_vars

\* trainer.step() returns
StepReturn ==
    /\ outcome = "running" /\ phase = "in_step"
    /\ phase' = "idle"
    /\ steps_done' = steps_done + 1
    /\ Log(<<"step_return">>)
    /\ UNCHANGED <<variant, tpc, system, program, trainer_node, run_disabled,
                   to_device_args, local_resources, launch_args, trainer, loop_i, outcome>>
    /\ UNCHANGED setup_vars

\* range(2) is exhausted: the test method returns
LoopExit ==
    /\ Running /\ Stmt(tpc) = "steps"
    /\ loop_i >= NumSteps
    /\ tpc' = tpc + 1
    /\ outcome' = "passed"
    /\ UNCHANGED <<variant, phase, system, program, trainer_node, run_disabled,
                   to_device_args, local_resources, launch_args, trainer, steps_done, loop_i,
                   trace>>
    /\ UNCHANGED setup_vars

\* the library call of the current statement raises
Raises ==
    /\ outcome = "running"
    /\ Stmt(tpc) # "unpack"
    /\ Stmt(tpc) = "steps" => phase = "in_step"
    /\ outcome' = "error"
    /\ Log(<<"raise">>)
    /\ UNCHANGED <<variant, tpc, phase, system, program, trainer_node,
                   run_disabled, to_device_args, local_resources, launch_args, trainer,
                   steps_done, loop_i>>
    /\ UNCHANGED setup_vars

TestIdle ==
    /\ variant = 0
    /\ tpc = 0
    /\ phase = "idle"
    /\ system = <<>>
    /\ program = <<>>
    /\ trainer_node = "none"
    /\ run_disabled = {}
    /\ to_device_args = NoToDeviceCall
    /\ local_resources = <<>>
    /\ launch_args = NoLaunch
    /\ trainer = "none"
    /\ steps_done = 0
    /\ loop_i = 0
    /\ outcome = "idle"
    /\ trace = <<>>

InitSetup ==
    /\ spc = "load"
    /\ argv_in \in Argvs
    /\ argv = argv_in
    /\ metadata_version \in MetadataVersions
    /\ today \in Dates
    /\ version = <<>>
    /\ setup_args = NoSetupCall
    /\ TestIdle

NextSetup == LoadMetadata \/ NightlyCheck \/ CallSetup

Spec == InitSetup /\ [][NextSetup]_vars

SetupIdle ==
    /\ spc = "idle"
    /\ argv = <<>>
    /\ argv_in = <<>>
    /\ metadata_version = <<>>
    /\ today = [y |-> 0, m |-> 0, d |-> 0]
    /\ version = <<>>
    /\ setup_args = NoSetupCall

InitTest ==
    /\ variant \in Variants
    /\ tpc = 1
    /\ phase = "idle"
    /\ system = <<>>
    /\ program = <<>>
    /\ trainer_node = "none"
    /\ run_disabled = {}
    /\ to_device_args = NoToDeviceCall
    /\ local_resources = <<>>
    /\ launch_args = NoLaunch
    /\ trainer = "none"
    /\ steps_done = 0
    /\ loop_i = 0
    /\ outcome = "running"
    /\ trace = <<>>
    /\ SetupIdle

NextTest ==
    \/ Construct \/ Build \/ Unpack \/ UnpackFails \/ DisableRun \/ ToDevice
    \/ LaunchCall \/ LaunchReturn \/ CreateHandle \/ Dereference
    \/ StepCall \/ StepReturn \/ LoopExit \/ Raises

SpecTest == InitTest /\ [][NextTest]_vars

(***************************************************************************)
(* Helpers of the properties: they read a string back, independently of    *)
(* the operators that built it.                                            *)
(***************************************************************************)
IsDigit(c) == \E n \in 1..10 : DigitChars[n] = c

DigitValue(c) == (CHOOSE n \in 1..10 : DigitChars[n] = c) - 1

RECURSIVE NumberOf(_)
NumberOf(s) ==
    IF Len(s) = 0 THEN 0
    ELSE 10 * NumberOf(SubSeq(s, 1, Len(s) - 1)) + DigitValue(s[Len(s)])

Occurrences(s, x) == Cardinality({i \in 1..Len(s) : s[i] = x})

FirstIndex(s, x) ==
    CHOOSE i \in 1..Len(s) : s[i] = x /\ \A j \in 1..(i - 1) : s[j] # x

EventsAt(e) == {i \in 1..Len(trace) : trace[i] = e}

\* every event e of the trace has an event b somewhere before it
Precedes(b, e) == \A i \in EventsAt(e) : \E j \in EventsAt(b) : j < i

(***************************************************************************)
(* C2: the version setup() is called with is _metadata.__version__ exactly *)
(* when "--nightly" is not on the command line, and otherwise              *)
(* _metadata.__version__ followed once by ".dev" and the current date as 8 *)
(* digits YYYYMMDD, however often the flag occurs.                         *)
(***************************************************************************)
C2_VersionFromMetadata ==
    setup_args.called =>
        LET v == setup_args.version
            n == Len(metadata_version)
        IN  IF Occurrences(argv_in, NightlyFlag) = 0
            THEN v = metadata_version
            ELSE /\ Len(v) = n + 4 + 8
                 /\ SubSeq(v, 1, n) = metadata_version
                 /\ SubSeq(v, n + 1, n + 4) = <<".", "d", "e", "v">>
                 /\ \A i \in (n + 5)..(n + 12) : IsDigit(v[i])
                 /\ NumberOf(SubSeq(v, n + 5, n + 8)) = today.y
                 /\ NumberOf(SubSeq(v, n + 9, n + 10)) = today.m
                 /\ NumberOf(SubSeq(v, n + 11, n + 12)) = today.d

\* a nightly build with the flag given twice, in a one-digit month and day
C2_Witness ==
    /\ setup_args.called
    /\ Occurrences(argv_in, NightlyFlag) = 2
    /\ today.m = 9 /\ today.d = 1
    /\ Len(setup_args.version) = Len(metadata_version) + 12

(***************************************************************************)
(* C3: in the extras setup() is called with, "jax" holds every requirement *)
(* of "tf", and "envs" holds exactly the requirements of "pz",             *)
(* "open_spiel" and "sc2".                                                 *)
(***************************************************************************)
C3_ExtrasGrouping ==
    setup_args.called =>
        LET e == setup_args.extras
        IN  /\ Range(e.tf) \subseteq Range(e.jax)
            /\ Range(e.envs) = Range(e.pz) \cup Range(e.open_spiel) \cup Range(e.sc2)

\* setup() was called and the bundles at stake are not empty
C3_Witness ==
    /\ setup_args.called
    /\ "trfl" \in Range(setup_args.extras.tf)
    /\ "trfl" \in Range(setup_args.extras.jax)
    /\ "open_spiel" \in Range(setup_args.extras.envs)
    /\ Len(setup_args.extras.sc2) = 2

(***************************************************************************)
(* C9: the nightly-flag handling leaves sys.argv unchanged when the flag   *)
(* is absent; when it is present it removes exactly the first "--nightly", *)
(* the other arguments keeping their values and order; a command line with *)
(* one "--nightly" reaches setup() with none.                              *)
(***************************************************************************)
C9_ArgvFrame ==
    spc \in {"setup", "done"} =>
        /\ IF Occurrences(argv_in, NightlyFlag) = 0
           THEN argv = argv_in
           ELSE LET k == FirstIndex(argv_in, NightlyFlag)
                IN  /\ Len(argv) = Len(argv_in) - 1
                    /\ \A i \in 1..Len(argv) :
                           argv[i] = argv_in[IF i < k THEN i ELSE i + 1]
        /\ (setup_args.called /\ Occurrences(argv_in, NightlyFlag) = 1)
               => Occurrences(setup_args.argv, NightlyFlag) = 0

\* the flag given twice around another word: only the first one is gone
C9_Witness ==
    /\ setup_args.called
    /\ argv_in = <<"setup.py", NightlyFlag, "sdist", NightlyFlag>>
    /\ setup_args.argv = <<"setup.py", "sdist", NightlyFlag>>

(***************************************************************************)
(* C4: in every test the calls happen in a fixed order: build() before the *)
(* trainer node is taken from its group, disable_run() on it before        *)
(* lp.launch() is called, the trainer handle created and dereferenced only *)
(* after lp.launch() has returned, trainer.step() only after that, at most *)
(* 2 times and exactly 2 times in a test that passes, each call after the  *)
(* previous one has returned.                                              *)
(***************************************************************************)
C4_CallOrder ==
    /\ Precedes("build", "unpack")
    /\ Precedes("unpack", "disable_run")
    /\ Precedes("disable_run", "launch_call")
    /\ Precedes("launch_return", "create_handle")
    /\ Precedes("create_handle", "dereference")
    /\ Precedes("dereference", "step_call")
    /\ Cardinality(EventsAt("step_call")) <= 2
    /\ outcome = "passed" =>
           /\ Cardinality(EventsAt("step_call")) = 2
           /\ Cardinality(EventsAt("step_return")) = 2
    /\ \A i, k \in EventsAt("step_call") :
           i < k => \E j \in EventsAt("step_return") : i < j /\ j < k
    /\ \A e \in {"build", "unpack", "disable_run", "launch_call",
                 "launch_return", "create_handle", "dereference"} :
           Cardinality(EventsAt(e)) <= 1

\* a test of the recurrent variant that passed after two steps
C4_Witness ==
    /\ outcome = "passed"
    /\ variant = 2
    /\ steps_done = 2
    /\ Cardinality(EventsAt("step_call")) = 2

====
